---- MODULE Spec2Model ----
(***************************************************************************)
(* Mail ingestion and folder-state engine of the Pilot180 mail backend.    *)
(*                                                                         *)
(*   - the IMAP poller  (backend/services/imapService.js, syncMailbox,     *)
(*     driven by the cron schedule of backend/index.js),                   *)
(*   - the store write  (dbService.js, saveEmailToDB) and the mails table  *)
(*     with its composite unique constraint (migrations 002, 004..),       *)
(*   - the folder/flag mutators and the query surface                      *)
(*     (backend/routes/mailRoutes.js).                                     *)
(*                                                                         *)
(* Addresses and user names are sequences of tokens, so that               *)
(* user.includes('@') and `${user}@${mailDomain}` are computed, not        *)
(* assumed: <<"bob">> is the bare user name, <<"bob","@","d">> the address.*)
(***************************************************************************)
EXTENDS Integers, Sequences, FiniteSets, TLC

\* ------------------------------------------------------------------ bounds
NumMsgs == 1        \* distinct parsed messages the environment can present
MaxUids == 2        \* copies the remote IMAP server holds over a run
MaxId == 2          \* rows the store's id sequence hands out over a run

\* --------------------------------------------------------------- constants
mailDomain == "d"   \* process.env.MAIL_DOMAIN || 'pilot180.local'

Bob == <<"bob">>
Alice == <<"alice">>
BobAddr == <<"bob", "@", "d">>
AliceAddr == <<"alice", "@", "d">>

\* getUsername(req): the resolved identity of a request, bare or qualified
Users == {Alice, AliceAddr, Bob}

\* the identities that send mail through POST /mail/send
Senders == {Alice}

\* the mailboxes the cron callback syncs, in order
Mailboxes == <<BobAddr, AliceAddr>>

\* SQL NULL for message_id (a number column in this model) and for owner
Null == 0
NoOwner == <<>>

Messages == 1..NumMsgs

\* the To: header of a parsed message
ToOf(m) == IF m % 2 = 1 THEN {BobAddr} ELSE {AliceAddr}

Folders == {"INBOX", "SENT", "SPAM", "TRASH"}
\* what a client may put in the "to" field of a move request
MoveTargets == Folders \cup {"ARCHIVE", ""}

VARIABLES
    mails,      \* the mails table: a set of rows
    nextId,     \* the BIGSERIAL sequence behind mails.id
    resp,       \* the response in flight: [op, status, count, mail]
    remote,     \* the remote IMAP server: sequence of [box, msg, seen]
    sync,       \* per cron tick in flight: syncMailbox's position and locals
    gone,       \* history: the <<message_id, owner>> of rows deleted so far
    inflight    \* a route handler between its awaits: [pc, op, user, ids, ok, ...]

vars == <<mails, nextId, resp, remote, sync, gone, inflight>>

\* ------------------------------------------------------ identity handling
HasAt(user) == \E i \in DOMAIN user : user[i] = "@"

\* userEmail = user.includes('@') ? user : `${user}@${mailDomain}`
userEmailOf(user) == IF HasAt(user) THEN user ELSE user \o <<"@", mailDomain>>

\* ------------------------------------------------------------- the store
\* A row of the mails table (CREATE TABLE mails plus the is_read, is_starred
\* and is_spam columns the later migrations add).  content stands for the
\* from/subject/body/date columns: the parsed message the row was made from.
\* via and by are no columns: they record which mailbox's sync (0: none) and
\* which cron tick wrote the row, for the properties to refer to.
Row(id, message_id, content, to, folder, owner) ==
    [id |-> id, message_id |-> message_id, content |-> content, to |-> to,
     folder |-> folder, owner |-> owner,
     is_read |-> FALSE, is_starred |-> FALSE, is_spam |-> FALSE,
     via |-> 0, by |-> "none"]

\* mails_message_id_folder_owner_unique: UNIQUE (message_id, folder, owner).
\* As in PostgreSQL, a NULL in any column of the key never conflicts.
UniqueOk(rows) ==
    \A r1, r2 \in rows :
        (/\ r1.id # r2.id
         /\ r1.message_id # Null /\ r1.owner # NoOwner
         /\ r2.message_id # Null /\ r2.owner # NoOwner)
        => ~(/\ r1.message_id = r2.message_id
             /\ r1.folder = r2.folder
             /\ r1.owner = r2.owner)

\* saveEmailToDB(email): INSERT INTO mails (from_email, to_email, subject,
\* body, date) VALUES (...).  The statement names neither message_id, folder,
\* owner nor to_addresses, so the row takes the column defaults.
saveEmailToDB(rows, id, m) ==
    rows \cup {Row(id, Null, m, {}, "INBOX", NoOwner)}

\* ------------------------------------------------------- the IMAP poller
Ticks == {"t1", "t2"}   \* cron callbacks in flight (node-cron does not wait)

\* errs counts the console.error lines of the tick's syncMailbox calls
IdleSync ==
    [pc |-> "idle", box |-> 1, results |-> <<>>, conn |-> "none", errs |-> 0]

RECURSIVE UnseenOf(_, _, _)
\* the indexes of the unseen copies held for mailbox b, in uid order
UnseenOf(rem, b, i) ==
    IF i > Len(rem) THEN <<>>
    ELSE IF rem[i].box = b /\ ~rem[i].seen
         THEN <<i>> \o UnseenOf(rem, b, i + 1)
         ELSE UnseenOf(rem, b, i + 1)

\* fetchOptions.markSeen: true - every fetched message gets \Seen by the fetch
markSeen(rem, b) ==
    [i \in DOMAIN rem |->
        IF rem[i].box = b THEN [rem[i] EXCEPT !.seen = TRUE] ELSE rem[i]]

\* the environment: mail arrives in a remote mailbox
Deliver(b, m) ==
    /\ Len(remote) < MaxUids
    /\ remote' = Append(remote, [box |-> b, msg |-> m, seen |-> FALSE])
    /\ UNCHANGED <<mails, nextId, resp, sync>>

\* cron.schedule('*/30 * * * * *', ...): a callback starts with
\* syncMailbox of the first mailbox
CronTick(t) ==
    /\ sync[t].pc = "idle"
    /\ sync' = [sync EXCEPT ![t] = [IdleSync EXCEPT !.pc = "connect"]]
    /\ UNCHANGED <<mails, nextId, resp, remote>>

\* the failure leaves syncMailbox as an exception: the cron callback ends
Caught_Raised(t) == IdleSync

\* catch (err) { console.error(...) }: syncMailbox returns, nothing is undone
Caught(t) ==
    [sync[t] EXCEPT !.pc = "returned", !.results = <<>>, !.errs = @ + 1]

\* const connection = await imaps.connect(config)
Connect(t, ok) ==
    /\ sync[t].pc = "connect"
    /\ sync' = [sync EXCEPT ![t] =
                  IF ok THEN [sync[t] EXCEPT !.pc = "openBox", !.conn = "open"]
                  ELSE Caught(t)]
    /\ UNCHANGED <<mails, nextId, resp, remote>>

\* await connection.openBox('INBOX')
OpenBox(t, ok) ==
    /\ sync[t].pc = "openBox"
    /\ sync' = [sync EXCEPT ![t] =
                  IF ok THEN [sync[t] EXCEPT !.pc = "search"] ELSE Caught(t)]
    /\ UNCHANGED <<mails, nextId, resp, remote>>

\* const results = await connection.search(['UNSEEN'], {..., markSeen: true})
Search(t, ok) ==
    /\ sync[t].pc = "search"
    /\ IF ok
       THEN /\ sync' = [sync EXCEPT ![t] =
                          [sync[t] EXCEPT !.pc = "loop",
                                          !.results = UnseenOf(remote, sync[t].box, 1)]]
            /\ remote' = markSeen(remote, sync[t].box)
       ELSE /\ sync' = [sync EXCEPT ![t] = Caught(t)]
            /\ UNCHANGED remote
    /\ UNCHANGED <<mails, nextId, resp>>

\* one iteration of  for (let res of results) { parse; await saveEmailToDB }
\* outcome: "ok", "parse" (simpleParser throws) or "store" (pool.query throws)
LoopStep(t, outcome) ==
    /\ sync[t].pc = "loop"
    /\ sync[t].results # <<>>
    /\ IF outcome = "ok"
       THEN /\ nextId <= MaxId
            /\ LET new == saveEmailToDB(mails, nextId, remote[Head(sync[t].results)].msg)
               IN  mails' = {IF r.id = nextId
                             THEN [r EXCEPT !.via = sync[t].box, !.by = t]
                             ELSE r : r \in new}
            /\ nextId' = nextId + 1
            /\ sync' = [sync EXCEPT ![t].results = Tail(@)]
       ELSE /\ sync' = [sync EXCEPT ![t] = Caught(t)]
            /\ UNCHANGED <<mails, nextId>>
    /\ UNCHANGED <<resp, remote>>

\* the loop is over: connection.end(), and syncMailbox returns
LoopEnd(t) ==
    /\ sync[t].pc = "loop"
    /\ sync[t].results = <<>>
    /\ sync' = [sync EXCEPT ![t] = [sync[t] EXCEPT !.pc = "returned", !.conn = "ended"]]
    /\ UNCHANGED <<mails, nextId, resp, remote>>

\* back in the cron callback: the next await syncMailbox(...), or the end
Returned(t) ==
    /\ sync[t].pc = "returned"
    /\ sync' = [sync EXCEPT ![t] =
                  IF sync[t].box < Len(Mailboxes)
                  THEN [IdleSync EXCEPT !.pc = "connect", !.box = sync[t].box + 1,
                                        !.errs = sync[t].errs]
                  ELSE IdleSync]
    /\ UNCHANGED <<mails, nextId, resp, remote>>

SyncStep ==
    \/ \E b \in DOMAIN Mailboxes, m \in Messages : Deliver(b, m) /\ UNCHANGED <<gone, inflight>>
    \/ \E t \in Ticks : CronTick(t) /\ UNCHANGED <<gone, inflight>>
    \/ \E t \in Ticks, ok \in BOOLEAN : Connect(t, ok) /\ UNCHANGED <<gone, inflight>>
    \/ \E t \in Ticks, ok \in BOOLEAN : OpenBox(t, ok) /\ UNCHANGED <<gone, inflight>>
    \/ \E t \in Ticks, ok \in BOOLEAN : Search(t, ok) /\ UNCHANGED <<gone, inflight>>
    \/ \E t \in Ticks, o \in {"ok", "parse", "store"} : LoopStep(t, o) /\ UNCHANGED <<gone, inflight>>
    \/ \E t \in Ticks : LoopEnd(t) /\ UNCHANGED <<gone, inflight>>
    \/ \E t \in Ticks : Returned(t) /\ UNCHANGED <<gone, inflight>>

\* count is a field of the body of a successful bulk answer only
NoCount == -1

\* no handler is between its awaits
IdleReq ==
    [pc |-> "idle", op |-> "none", user |-> <<>>, ids |-> {}, ok |-> {},
     status |-> 0, count |-> NoCount]

NoResp == [op |-> "none", status |-> 0, count |-> 0, mail |-> {}]

Init ==
    /\ mails = {}
    /\ nextId = 1
    /\ resp = NoResp
    /\ remote = <<>>
    /\ sync = [t \in Ticks |-> IdleSync]
    /\ gone = {}
    /\ inflight = IdleReq

\* the poller alone: remote deliveries and overlapping cron ticks
SpecSync == Init /\ [][SyncStep]_vars

\* ------------------------------------------------- the ingest writer
\* insertIfAbsent of the Ingest Writer (SMTP receiver, sent-copy of a send):
\* one row per (message_id, folder, owner), a duplicate is a silent no-op.
insertIfAbsent(rows, id, m, folder, owner) ==
    IF \E r \in rows : r.message_id = m /\ r.folder = folder /\ r.owner = owner
    THEN rows
    ELSE rows \cup {Row(id, m, m, ToOf(m), folder, owner)}

\* res.status(status).json(...): the response to the request being handled.
\* The client sends one request at a time: a route handles a request when no
\* response is in flight (resp = NoResp), and Receive takes the response.
\* op names the route that answered; count and mail are the body's fields
\* (mail: result.rows of the move route's UPDATE ... RETURNING *).
Reply(op, status, count) ==
    [op |-> op, status |-> status, count |-> count, mail |-> {}]

Receive ==
    /\ resp # NoResp
    /\ resp' = NoResp
    /\ UNCHANGED <<mails, nextId, remote, sync>>

\* SMTP receiver: an inbound delivery of m is ingested for a local recipient
SmtpReceive(m, rcpt) ==
    /\ rcpt \in ToOf(m)
    /\ nextId <= MaxId
    /\ mails' = insertIfAbsent(mails, nextId, m, "INBOX", rcpt)
    /\ nextId' = IF mails' = mails THEN nextId ELSE nextId + 1
    /\ UNCHANGED <<resp, remote, sync>>

\* a send that persists the SENT copy before it calls the transport
SendMail_PersistFirst(user, m, transportOk) ==
    /\ resp = NoResp
    /\ nextId <= MaxId
    /\ mails' = insertIfAbsent(mails, nextId, m, "SENT", user)
    /\ nextId' = IF mails' = mails THEN nextId ELSE nextId + 1
    /\ resp' = Reply("send", IF transportOk THEN 200 ELSE 500, NoCount)
    /\ UNCHANGED <<remote, sync>>

\* POST /mail/send: sendMail({..., owner: user}) delivers through the
\* outbound transport and persists the message as SENT owned by user
SendMail(user, m, transportOk) ==
    /\ resp = NoResp
    /\ nextId <= MaxId
    /\ IF transportOk
       THEN /\ mails' = insertIfAbsent(mails, nextId, m, "SENT", user)
            /\ nextId' = IF mails' = mails THEN nextId ELSE nextId + 1
            /\ resp' = Reply("send", 200, NoCount)
       ELSE /\ UNCHANGED <<mails, nextId>>
            /\ resp' = Reply("send", 500, NoCount)
    /\ UNCHANGED <<remote, sync>>

\* the poller's store write as an operation of its own
SaveEmail(m, dbOk) ==
    /\ nextId <= MaxId
    /\ IF dbOk
       THEN /\ mails' = saveEmailToDB(mails, nextId, m)
            /\ nextId' = nextId + 1
       ELSE UNCHANGED <<mails, nextId>>
    /\ UNCHANGED <<resp, remote, sync>>

\* ------------------------------------------------ folder/flag mutator
Ids == 1..MaxId

\* SELECT ... FROM mails WHERE id=$1
rowsById(id) == {r \in mails : r.id = id}

\* mail.owner !== user && !(mail.to_addresses || []).includes(userEmail)
\* is the Forbidden case; this is its negation
allowed(mail, user) ==
    mail.owner = user \/ userEmailOf(user) \in mail.to

\* the check with its Forbidden branch left out
checkQ_NoForbidden(user, id) ==
    IF rowsById(id) = {} THEN 404 ELSE 0

\* the check with its Not Found branch left out
checkQ_NoNotFound(user, id) ==
    IF rowsById(id) # {} /\ \A r \in rowsById(id) : ~allowed(r, user) THEN 403
    ELSE 0

\* the check every single-message route starts with: 0 when it passes
checkQ(user, id) ==
    IF rowsById(id) = {} THEN 404
    ELSE IF \A r \in rowsById(id) : ~allowed(r, user) THEN 403
    ELSE 0

\* UPDATE mails SET ... WHERE id = ANY(ids): Set(r) is the row after the SET
Update(ids, Set(_)) == {IF r.id \in ids THEN Set(r) ELSE r : r \in mails}

\* marking read that also drops the star
setRead_ClearsStar(r) == [r EXCEPT !.is_read = TRUE, !.is_starred = FALSE]

setRead(r) == [r EXCEPT !.is_read = TRUE]
setUnread(r) == [r EXCEPT !.is_read = FALSE]

\* a single-message route: permission check, then one statement; a statement
\* the store rejects (connection lost, constraint violated) gives 500
Route(op, user, id, dbOk, new) ==
    /\ resp = NoResp
    /\ IF ~dbOk THEN /\ resp' = Reply(op, 500, NoCount)
                     /\ UNCHANGED mails
       ELSE IF checkQ(user, id) # 0
            THEN /\ resp' = Reply(op, checkQ(user, id), 0)
                 /\ UNCHANGED mails
       ELSE IF ~UniqueOk(new)
            THEN /\ resp' = Reply(op, 500, NoCount)
                 /\ UNCHANGED mails
       ELSE /\ resp' = [Reply(op, 200, NoCount) EXCEPT
                          !.mail = IF op = "move" THEN {r \in new : r.id = id} ELSE {}]
            /\ mails' = new
    /\ UNCHANGED <<nextId, remote, sync>>

\* PATCH /mail/:id/read
MarkRead(user, id, dbOk) ==
    Route("read", user, id, dbOk, Update({id}, setRead))

\* PATCH /mail/:id/unread
MarkUnread(user, id, dbOk) ==
    Route("unread", user, id, dbOk, Update({id}, setUnread))

\* PATCH /mail/:id/star   body {isStarred}
Star(user, id, isStarred, dbOk) ==
    Route("star", user, id, dbOk,
          Update({id}, LAMBDA r : [r EXCEPT !.is_starred = isStarred]))

\* the move statement without its is_spam assignment
moveSet_FolderOnly(r, to) == [r EXCEPT !.folder = to]

\* UPDATE mails SET folder = $1, is_spam = ($1 = 'SPAM') WHERE id = $3
moveSet(r, to) == [r EXCEPT !.folder = to, !.is_spam = (to = "SPAM")]

\* POST /mail/:id/move   body {to}
Move(user, id, to, dbOk) ==
    IF to = ""
    THEN /\ resp = NoResp
         /\ resp' = Reply("move", 400, NoCount)
         /\ UNCHANGED <<mails, nextId, remote, sync>>
    ELSE Route("move", user, id, dbOk, Update({id}, LAMBDA r : moveSet(r, to)))

\* UPDATE mails SET folder = 'TRASH' WHERE id = $2
trashSet(r) == [r EXCEPT !.folder = "TRASH"]

\* DELETE /mail/:id  (soft delete)
SoftDelete(user, id, dbOk) ==
    Route("delete", user, id, dbOk, Update({id}, trashSet))

\* the permanent delete as a move to TRASH: the row stays
PermanentDelete_Soft(user, id, dbOk) ==
    Route("permanent", user, id, dbOk, Update({id}, trashSet))

\* DELETE /mail/:id/permanent
PermanentDelete(user, id, dbOk) ==
    Route("permanent", user, id, dbOk, {r \in mails : r.id # id})

BulkActions == {"delete", "spam", "move", "read", "unread", "archive"}

\* the bulk selection testing the recipients with the raw identity
allowedIds_RawIdentity(user, ids) ==
    {r.id : r \in {q \in mails :
        q.id \in ids /\ (q.owner = user \/ user \in q.to)}}

\* SELECT id FROM mails WHERE id = ANY($1) AND (owner = $2 OR $3 = ANY(to_addresses))
allowedIds(user, ids) ==
    {r.id : r \in {q \in mails :
        q.id \in ids /\ (q.owner = user \/ userEmailOf(user) \in q.to)}}

\* the statement of each bulk action, applied to the allowed ids
bulkSet(r, action, to) ==
    CASE action = "delete" -> [r EXCEPT !.folder = "TRASH"]
      [] action = "spam"   -> [r EXCEPT !.folder = "SPAM", !.is_spam = TRUE]
      [] action = "move"   -> [r EXCEPT !.folder = to]
      [] action = "read"   -> [r EXCEPT !.is_read = TRUE]
      [] action = "unread" -> [r EXCEPT !.is_read = FALSE]
      [] OTHER             -> r

\* POST /mail/bulk   body {ids, action, to}
Bulk(user, ids, action, to, dbOk) ==
    LET ok == allowedIds(user, ids)
        new == Update(ok, LAMBDA r : bulkSet(r, action, to))
    IN
    /\ resp = NoResp
    /\ IF ids = {} THEN /\ resp' = Reply("bulk", 400, NoCount)
                        /\ UNCHANGED mails
       ELSE IF ~dbOk THEN /\ resp' = Reply("bulk", 500, NoCount)
                          /\ UNCHANGED mails
       ELSE IF ok = {} THEN /\ resp' = Reply("bulk", 403, NoCount)
                            /\ UNCHANGED mails
       ELSE IF action \notin {"delete", "spam", "move", "read", "unread"}
                 \/ (action = "move" /\ to = "")
            THEN /\ resp' = Reply("bulk", 400, NoCount)
                 /\ UNCHANGED mails
       ELSE IF ~UniqueOk(new)
            THEN /\ resp' = Reply("bulk", 500, NoCount)
                 /\ UNCHANGED mails
       ELSE /\ resp' = Reply("bulk", 200, Cardinality(ok))
            /\ mails' = new
    /\ UNCHANGED <<nextId, remote, sync>>

\* --------------------------------------------------------- query surface
\* GET /mail/:id: the status of the answer (200 comes with the row)
GetMail(user, id) ==
    IF rowsById(id) = {} THEN 404
    ELSE IF \A r \in rowsById(id) : ~allowed(r, user) THEN 403
    ELSE 200

\* GET /mail/inbox: WHERE owner = $1 OR $2 = ANY(to_addresses)
listInbox(user) ==
    {r \in mails : r.owner = user \/ userEmailOf(user) \in r.to}

\* GET /mail/sent: WHERE owner = $1 AND folder = 'SENT'
listSent(user) ==
    {r \in mails : r.owner = user /\ r.folder = "SENT"}

\* GET /mail/spam: WHERE (owner = $1 OR $2 = ANY(to_addresses)) AND folder = 'SPAM'
listSpam(user) ==
    {r \in mails : (r.owner = user \/ userEmailOf(user) \in r.to) /\ r.folder = "SPAM"}

\* GET /mail/trash: WHERE (owner = $1 OR $2 = ANY(to_addresses)) AND folder = 'TRASH'
listTrash(user) ==
    {r \in mails : (r.owner = user \/ userEmailOf(user) \in r.to) /\ r.folder = "TRASH"}

\* GET /mail/important: WHERE (owner = $1 OR $2 = ANY(to_addresses)) AND is_starred
listImportant(user) ==
    {r \in mails : (r.owner = user \/ userEmailOf(user) \in r.to) /\ r.is_starred}

\* the listing of folder F
listFolder(user, F) ==
    CASE F = "INBOX" -> listInbox(user)
      [] F = "SENT"  -> listSent(user)
      [] F = "SPAM"  -> listSpam(user)
      [] F = "TRASH" -> listTrash(user)

\* GET /mail/search with an empty text: WHERE (owner = $1 OR $1 = ANY(to_addresses))
search(user) ==
    {r \in mails : r.owner = user \/ user \in r.to}

\* the rows GET /mail/counts aggregates: owner = $1 OR $2 = ANY(to_addresses)
visible(user) == {r \in mails : r.owner = user \/ userEmailOf(user) \in r.to}

\* GET /mail/counts
counts(user) ==
    [inbox     |-> Cardinality({r \in visible(user) : r.folder = "INBOX" /\ ~r.is_read}),
     sent      |-> Cardinality({r \in visible(user) : r.folder = "SENT" /\ ~r.is_read}),
     important |-> Cardinality({r \in visible(user) : r.is_starred /\ ~r.is_read}),
     spam      |-> Cardinality({r \in visible(user) : r.folder = "SPAM"}),
     trash     |-> Cardinality({r \in visible(user) : r.folder = "TRASH"})]

\* A statement the store rejects fails whatever the request was: one failing
\* request per route is enumerated.
DbOutcomes(user, id) == IF user = Bob /\ id = 1 THEN BOOLEAN ELSE {TRUE}

\* {action, to} of a bulk request: "to" only matters to "move"
BulkRequests ==
    {<<a, "">> : a \in BulkActions} \cup {<<"move", to>> : to \in MoveTargets}

Next ==
    \/ \E m \in Messages, rcpt \in {BobAddr, AliceAddr} : SmtpReceive(m, rcpt) /\ UNCHANGED <<gone, inflight>>
    \/ \E u \in Senders, m \in Messages, ok \in BOOLEAN : SendMail(u, m, ok) /\ UNCHANGED <<gone, inflight>>
    \/ \E m \in Messages, ok \in BOOLEAN : SaveEmail(m, ok) /\ UNCHANGED <<gone, inflight>>
    \/ \E u \in Users, id \in Ids : \E ok \in DbOutcomes(u, id) : MarkRead(u, id, ok) /\ UNCHANGED <<gone, inflight>>
    \/ \E u \in Users, id \in Ids : \E ok \in DbOutcomes(u, id) : MarkUnread(u, id, ok) /\ UNCHANGED <<gone, inflight>>
    \/ \E u \in Users, id \in Ids, st \in BOOLEAN : \E ok \in DbOutcomes(u, id) :
          Star(u, id, st, ok) /\ UNCHANGED <<gone, inflight>>
    \/ \E u \in Users, id \in Ids, to \in MoveTargets : \E ok \in DbOutcomes(u, id) :
          Move(u, id, to, ok) /\ UNCHANGED <<gone, inflight>>
    \/ \E u \in Users, id \in Ids : \E ok \in DbOutcomes(u, id) : SoftDelete(u, id, ok) /\ UNCHANGED <<gone, inflight>>
    \/ \E u \in Users, id \in Ids : \E ok \in DbOutcomes(u, id) : PermanentDelete(u, id, ok) /\ UNCHANGED <<gone, inflight>>
    \/ \E u \in Users, ids \in SUBSET Ids, q \in BulkRequests :
          \E ok \in DbOutcomes(u, Cardinality(ids)) : Bulk(u, ids, q[1], q[2], ok) /\ UNCHANGED <<gone, inflight>>
    \/ Receive /\ UNCHANGED <<gone, inflight>>

\* the store under ingestion and the mutator routes
Spec == Init /\ [][Next]_vars

\* ------------------------------------------- deletion and re-ingestion
\* the rows of mails that the step moves into TRASH or removes
deletedBy ==
    {q \in mails :
        \/ \A p \in mails' : p.id # q.id
        \/ q.folder # "TRASH" /\ \E p \in mails' : p.id = q.id /\ p.folder = "TRASH"}

\* inbound deliveries against the delete routes, with the deletions recorded
Record == gone' = gone \cup {<<q.message_id, q.owner>> : q \in deletedBy}

NextIngest ==
    \/ \E m \in Messages, rcpt \in {BobAddr, AliceAddr} : SmtpReceive(m, rcpt) /\ Record /\ UNCHANGED inflight
    \/ \E u \in Users, id \in Ids : MarkRead(u, id, TRUE) /\ Record /\ UNCHANGED inflight
    \/ \E u \in Users, id \in Ids : SoftDelete(u, id, TRUE) /\ Record /\ UNCHANGED inflight
    \/ \E u \in Users, id \in Ids : PermanentDelete(u, id, TRUE) /\ Record /\ UNCHANGED inflight
    \/ Receive /\ Record /\ UNCHANGED inflight

SpecIngest == Init /\ [][NextIngest]_vars

\* ===================================================== claims, the poller

\* C1: a remote message is marked seen only after the store write for it
\* returned: in no reachable state is a message seen remotely while no row
\* holds it.
C1_SeenOnlyAfterStored ==
    \A i \in DOMAIN remote :
        remote[i].seen =>
            \E r \in mails : r.content = remote[i].msg /\ r.via = remote[i].box

\* C2: ingesting the same parsed message twice for the same mailbox (same
\* folder, same owner) leaves exactly one row.
C2_IngestIdempotent ==
    \A m \in Messages, b \in DOMAIN Mailboxes :
        Cardinality({r \in mails :
            r.content = m /\ r.via = b /\ r.folder = "INBOX"}) <= 1

\* C3: when two ingestion attempts for the same message and mailbox
\* interleave, no state is reachable in which both have inserted a row.
C3_OneInsertWins ==
    ~ \E r1, r2 \in mails :
        /\ r1.by # r2.by /\ r1.by # "none" /\ r2.by # "none"
        /\ r1.content = r2.content /\ r1.via = r2.via
        /\ r1.folder = r2.folder /\ r1.owner = r2.owner
        /\ sync[r1.by].pc = "loop" /\ sync[r2.by].pc = "loop"

\* C11: syncMailbox never raises to its caller: a failure while connecting,
\* opening the box, fetching or storing is logged and syncMailbox returns, and
\* the cron callback goes on with the next configured mailbox; a tick ends
\* only after the sync of the last mailbox returned.
C11_FailureIsolated ==
    [][\A t \in Ticks :
          /\ (sync'[t].errs > sync[t].errs) =>
                (/\ sync'[t].pc = "returned" /\ sync'[t].box = sync[t].box
                 /\ sync'[t].errs = sync[t].errs + 1)
          /\ (sync[t].pc = "returned" /\ sync'[t] # sync[t]
                 /\ sync[t].box < Len(Mailboxes)) =>
                (sync'[t].pc = "connect" /\ sync'[t].box = sync[t].box + 1)
          /\ (sync[t].pc # "idle" /\ sync'[t].pc = "idle") =>
                (sync[t].pc = "returned" /\ sync[t].box = Len(Mailboxes))]_vars

\* the sync of the first mailbox failed and was logged, and the same tick
\* is storing the mail of the second mailbox
C11_Witness ==
    \E t \in Ticks :
        /\ sync[t].box = 2 /\ sync[t].errs = 1 /\ sync[t].pc = "loop"
        /\ \E r \in mails : r.by = t /\ r.via = 2

\* C12: within one poll cycle of one mailbox, a parse or store failure on one
\* fetched message leaves the remaining fetched messages of the batch to be
\* ingested: the loop goes on with the next message.
C12_BatchGoesOn ==
    [][\A t \in Ticks :
          (/\ sync[t].pc = "loop" /\ Len(sync[t].results) > 1
           /\ (LoopStep(t, "parse") \/ LoopStep(t, "store")))
          => (sync'[t].pc = "loop" /\ sync'[t].results = Tail(sync[t].results))]_vars

\* C20: every row the poller creates for a mailbox has folder INBOX, the
\* mailbox's identity (its address, or the local part of it) as owner, and
\* is unread.
C20_PolledRowShape ==
    \A r \in mails :
        r.via # 0 =>
            /\ r.folder = "INBOX"
            /\ r.owner \in {Mailboxes[r.via], <<Head(Mailboxes[r.via])>>}
            /\ ~r.is_read

\* ================================================ claims, store and routes

\* C4: no two stored rows share the same (messageId, folder, owner) tuple.
C4_IdentityUnique ==
    \A r1, r2 \in mails :
        r1.id # r2.id =>
            <<r1.message_id, r1.folder, r1.owner>> # <<r2.message_id, r2.folder, r2.owner>>

SingleOps == {"read", "unread", "star", "move", "delete", "permanent"}

\* the step is the single-message route resp'.op handling a request of
\* identity u for id, the store answering every statement
SingleOpStep(u, id) ==
    CASE resp'.op = "read"      -> MarkRead(u, id, TRUE)
      [] resp'.op = "unread"    -> MarkUnread(u, id, TRUE)
      [] resp'.op = "star"      -> \E st \in BOOLEAN : Star(u, id, st, TRUE)
      [] resp'.op = "move"      -> \E to \in MoveTargets \ {""} : Move(u, id, to, TRUE)
      [] resp'.op = "delete"    -> SoftDelete(u, id, TRUE)
      [] resp'.op = "permanent" -> PermanentDelete(u, id, TRUE)
      [] OTHER                  -> FALSE

\* C5: a single-message mutation (read, unread, star, move, soft delete,
\* permanent delete) attempted on an existing row by an identity that is
\* neither its owner nor one of its recipients is answered Forbidden, and no
\* row changes.
C5_ForbiddenUnchanged ==
    [][(resp.op = "none" /\ resp'.op \in SingleOps)
       => \A u \in Users, id \in Ids :
            (/\ \E r \in mails : r.id = id
             /\ \A r \in mails :
                   r.id = id => (r.owner # u /\ userEmailOf(u) \notin r.to)
             /\ SingleOpStep(u, id))
            => (resp'.status = 403 /\ mails' = mails)]_vars

\* a permanent delete was refused as Forbidden and the rows are still there
C5_Witness ==
    /\ resp.op = "permanent" /\ resp.status = 403
    /\ mails # {}

\* C13: once an owner's copy of a message was soft-deleted (moved to TRASH)
\* or permanently deleted, no later ingestion creates a new INBOX row with
\* that message id for that owner.
C13_NoResurrection ==
    [][\A r \in mails' :
          (r.id = nextId /\ nextId' = nextId + 1 /\ r.folder = "INBOX")
          => <<r.message_id, r.owner>> \notin gone]_vars

\* the store a move request of u for id would leave, from the current state
afterMove(u, id, to) ==
    LET new == Update({id}, LAMBDA r : moveSet(r, to))
    IN  IF checkQ(u, id) = 0 /\ UniqueOk(new) THEN new ELSE mails

\* C14: a soft delete leaves the store exactly as a move to TRASH by the same
\* identity from the same state would: same folder and is_spam on the
\* target row, every other row unchanged.
C14_SoftDeleteIsMove ==
    [][(resp.op = "none" /\ resp'.op = "delete")
       => \A u \in Users, id \in Ids :
            SoftDelete(u, id, TRUE) => mails' = afterMove(u, id, "TRASH")]_vars

\* C15: a single-message mutation (read, unread, star, move, soft delete,
\* permanent delete) addressed to an id that has no stored row is answered
\* Not Found, and no row changes.
C15_NotFoundUnchanged ==
    [][(resp.op = "none" /\ resp'.op \in SingleOps)
       => \A u \in Users, id \in Ids :
            ((\A r \in mails : r.id # id) /\ SingleOpStep(u, id))
            => (resp'.status = 404 /\ mails' = mails)]_vars

\* a move addressed to an id without a row was answered Not Found while the
\* store holds other rows
C15_Witness ==
    /\ resp.op = "move" /\ resp.status = 404
    /\ mails # {}

\* C16: after a successful permanent delete of id, get(id) answers Not Found
\* in every later state, and no row created later is given that id: an id
\* the sequence handed out and that has no row stays without a row, and a new
\* row's id is one the sequence has not handed out before.
C16_DeletedForGood ==
    [][/\ (resp.op = "none" /\ resp'.op = "permanent" /\ resp'.status = 200)
          => \A u \in Users, id \in Ids :
                PermanentDelete(u, id, TRUE) => (GetMail(u, id) = 404)'
       /\ \A id \in Ids :
            (id < nextId /\ rowsById(id) = {})
            => \A u \in Users : (GetMail(u, id) = 404)'
       /\ \A r \in mails' : (\A q \in mails : q.id # r.id) => r.id >= nextId
       /\ nextId' >= nextId]_vars

\* row 1 was permanently deleted, and the row ingested after it has id 2
C16_Witness ==
    /\ resp.op = "permanent" /\ resp.status = 200
    /\ rowsById(1) = {} /\ rowsById(2) # {} /\ nextId = 3

C18_QualifiedSame ==
    \A u \in {v \in Users : ~HasAt(v)} :
        LET q == userEmailOf(u)
        IN  /\ \A id \in Ids : GetMail(u, id) = GetMail(q, id)
            /\ \A id \in Ids : checkQ(u, id) = checkQ(q, id)
            /\ allowedIds(u, Ids) = allowedIds(q, Ids)
            /\ \A F \in Folders : listFolder(u, F) = listFolder(q, F)
            /\ listImportant(u) = listImportant(q)
            /\ counts(u) = counts(q)
            /\ search(u) = search(q)

\* C19: for every folder F, the listing of F returns only rows whose folder
\* is F, so a soft-deleted message is in the TRASH listing and no longer in
\* the INBOX listing.
C19_ListedInOneFolder ==
    \A u \in Users, F \in Folders :
        \A r \in listFolder(u, F) : r.folder = F

\* C6: every stored row satisfies isSpam = (folder = SPAM).
C6_SpamLockstep ==
    \A r \in mails : r.is_spam = (r.folder = "SPAM")

\* C7: after a successful single-message move to target, the row's folder is
\* target and is_spam is true exactly when target is SPAM, whatever they were.
C7_MoveLockstep ==
    [][(resp.op = "none" /\ resp'.op = "move" /\ resp'.status = 200)
       => \A u \in Users, id \in Ids, to \in MoveTargets :
            Move(u, id, to, TRUE)
            => /\ \E r \in mails' : r.id = id
               /\ \A r \in mails' :
                     r.id = id => (r.folder = to /\ r.is_spam = (to = "SPAM"))]_vars

\* a move took a row that is flagged read out of SPAM: the returned row is
\* in TRASH with is_spam cleared
C7_Witness ==
    /\ resp.op = "move" /\ resp.status = 200
    /\ \E r \in resp.mail : r \in mails /\ r.folder = "TRASH" /\ ~r.is_spam /\ r.is_read

\* C8: a move to a folder outside INBOX, SENT, SPAM, TRASH is rejected, so
\* every stored row's folder is one of the four.
C8_FolderClosed ==
    \A r \in mails : r.folder \in Folders

\* C9: a bulk action on listed ids that exist is no error even when the
\* identity may access none of them: it answers 200 with the number of rows
\* it changed.
C9_BulkNoError ==
    [][(resp.op = "none" /\ resp'.op = "bulk")
       => \A u \in Users, ids \in SUBSET Ids, a \in {"read", "unread", "delete", "spam"} :
            (/\ ids # {}
             /\ \A id \in ids : \E r \in mails : r.id = id
             /\ Bulk(u, ids, a, "", TRUE))
            => /\ resp'.status = 200
               /\ resp'.count = Cardinality({r \in mails :
                     r.id \in ids /\ (r.owner = u \/ userEmailOf(u) \in r.to)})]_vars

\* C10: each of the five counts is the number of the identity's unread
\* messages in that view.
C10_CountsUnread ==
    \A u \in Users :
        LET mine == {r \in mails : r.owner = u \/ userEmailOf(u) \in r.to}
            unread(S) == Cardinality({r \in S : ~r.is_read})
        IN  /\ counts(u).inbox = unread({r \in mine : r.folder = "INBOX"})
            /\ counts(u).sent = unread({r \in mine : r.folder = "SENT"})
            /\ counts(u).important = unread({r \in mine : r.is_starred})
            /\ counts(u).spam = unread({r \in mine : r.folder = "SPAM"})
            /\ counts(u).trash = unread({r \in mine : r.folder = "TRASH"})

\* C21: a row whose folder is TRASH leaves TRASH only by the generic move
\* (the single-message move or the bulk action 'move'); no other step takes
\* a row out of TRASH.
C21_OutOfTrashOnlyByMove ==
    [][(\E r \in mails, p \in mails' :
            r.id = p.id /\ r.folder = "TRASH" /\ p.folder # "TRASH")
       => \/ \E u \in Users, id \in Ids, to \in MoveTargets : Move(u, id, to, TRUE)
          \/ \E u \in Users, ids \in SUBSET Ids, to \in MoveTargets :
                Bulk(u, ids, "move", to, TRUE)]_vars

\* C22: a message without a message id is stored, and presenting it again
\* with the same content for the same folder and owner leaves one row: no
\* two rows without message id agree on content, folder and owner.
C22_FallbackIdentity ==
    \A r1, r2 \in mails :
        (/\ r1.message_id = Null /\ r2.message_id = Null
         /\ r1.content = r2.content
         /\ r1.folder = r2.folder /\ r1.owner = r2.owner)
        => r1.id = r2.id

\* C23: a bulk action that fails reports the count of rows applied, and
\* that count is the number of rows the step changed.
C23_FailedBulkCount ==
    [][(resp.op = "none" /\ resp'.op = "bulk" /\ resp'.status = 500)
       => resp'.count = Cardinality({r \in mails : r \notin mails'})]_vars

\* C24: for every store state, identity and id, the id is in the bulk
\* route's eligible set exactly when the check of the single-message
\* mutation routes passes and the single get answers with the row.
C24_OnePredicate ==
    \A u \in Users, id \in Ids :
        /\ (id \in allowedIds(u, Ids)) <=> (checkQ(u, id) = 0)
        /\ (id \in allowedIds(u, Ids)) <=> (GetMail(u, id) = 200)
        /\ (id \in allowedIds(u, {id})) <=> (id \in allowedIds(u, Ids))

\* a bulk action was applied while some identity is eligible for a stored
\* row and another identity is not
C24_Witness ==
    /\ resp.op = "bulk" /\ resp.status = 200
    /\ \E u1, u2 \in Users, id \in Ids :
          /\ rowsById(id) # {}
          /\ id \in allowedIds(u1, Ids) /\ id \notin allowedIds(u2, Ids)

\* the step keeps every row, changes is_read at most, and that only on ids
onlyRead(ids) ==
    /\ \A r \in mails :
          \E p \in mails' : /\ p = [r EXCEPT !.is_read = p.is_read]
                            /\ (r.id \notin ids => p = r)
    /\ \A p \in mails' : \E r \in mails : r.id = p.id

\* the step keeps every row, changes is_starred at most, and that only on ids
onlyStarred(ids) ==
    /\ \A r \in mails :
          \E p \in mails' : /\ p = [r EXCEPT !.is_starred = p.is_starred]
                            /\ (r.id \notin ids => p = r)
    /\ \A p \in mails' : \E r \in mails : r.id = p.id

\* C25: marking read or unread (single route or bulk action) changes only
\* is_read, and starring changes only is_starred, on the addressed rows:
\* folder, is_spam, the other flag and every other row stay as they were.
C25_FlagsIndependent ==
    [][/\ (resp.op = "none" /\ resp'.op \in {"read", "unread"})
          => \A u \in Users, id \in Ids :
                (MarkRead(u, id, TRUE) \/ MarkUnread(u, id, TRUE)) => onlyRead({id})
       /\ (resp.op = "none" /\ resp'.op = "star")
          => \A u \in Users, id \in Ids, st \in BOOLEAN :
                Star(u, id, st, TRUE) => onlyStarred({id})
       /\ (resp.op = "none" /\ resp'.op = "bulk")
          => \A u \in Users, ids \in SUBSET Ids, a \in {"read", "unread"} :
                Bulk(u, ids, a, "", TRUE) => onlyRead(ids)]_vars

\* a row that is starred and filed in SPAM was marked read and kept both
C25_Witness ==
    /\ resp.op = "read" /\ resp.status = 200
    /\ \E r \in mails :
          r.is_read /\ r.is_starred /\ r.folder = "SPAM" /\ r.is_spam

\* the row of id exists and is filed in folder F
inFolder(id, F) ==
    /\ \E r \in mails : r.id = id
    /\ \A r \in mails : r.id = id => r.folder = F

\* {action, target} of the bulk actions that file rows in a folder
BulkFilings ==
    {<<"move", F>> : F \in Folders} \cup {<<"delete", "TRASH">>, <<"spam", "SPAM">>}

\* C26: for an existing message, an identity authorized on it and a target
\* folder among INBOX, SENT, SPAM, TRASH, the move, the soft delete and the
\* bulk actions move, delete and spam succeed and leave the message in the
\* target folder, whatever other rows the owner holds.
C26_FilingSucceeds ==
    [][(resp.op = "none" /\ resp'.op \in {"move", "delete", "bulk"})
       => \A u \in Users, id \in Ids :
            (checkQ(u, id) = 0)
            => /\ \A F \in Folders :
                    Move(u, id, F, TRUE) => (resp'.status = 200 /\ inFolder(id, F)')
               /\ SoftDelete(u, id, TRUE)
                    => (resp'.status = 200 /\ inFolder(id, "TRASH")')
               /\ \A ids \in SUBSET Ids, q \in BulkFilings :
                    (id \in ids
                     /\ Bulk(u, ids, q[1], IF q[1] = "move" THEN q[2] ELSE "", TRUE))
                    => (resp'.status = 200 /\ inFolder(id, q[2])')]_vars

\* ------------------------------------- a handler between its two awaits
\* The routes await the permission SELECT and then the UPDATE: another
\* request can be served between the two.  The handler of PATCH /mail/:id/read
\* (op "read", ids a single id) and of POST /mail/bulk with action 'read'
\* (op "bulk") in two steps; its answer is kept in inflight until taken.
RaceOps == {"read", "bulk"}

\* the SELECT of the check and the early returns after it
CheckStep(op, user, ids) ==
    LET ok == IF op = "read" THEN ids ELSE allowedIds(user, ids)
        st == IF op = "read" THEN checkQ(user, CHOOSE id \in ids : TRUE)
              ELSE IF ok = {} THEN 403 ELSE 0
    IN
    /\ inflight.pc = "idle"
    /\ IF op = "read" THEN Cardinality(ids) = 1 ELSE ids # {}
    /\ inflight' = IF st # 0
                   THEN [IdleReq EXCEPT !.pc = "replied", !.op = op, !.status = st]
                   ELSE [IdleReq EXCEPT !.pc = "checked", !.op = op, !.user = user,
                                        !.ids = ids, !.ok = ok]
    /\ UNCHANGED <<mails, nextId, resp, remote, sync, gone>>

\* UPDATE mails SET is_read = true WHERE id = $1 / id = ANY(allowedIds), then
\* res.json({ ok: true }) / res.json({ ok: true, count: allowedIds.length })
UpdateStep ==
    /\ inflight.pc = "checked"
    /\ mails' = Update(inflight.ok, setRead)
    /\ inflight' = [inflight EXCEPT
                      !.pc = "replied", !.status = 200,
                      !.count = IF inflight.op = "bulk"
                                THEN Cardinality(inflight.ok) ELSE NoCount]
    /\ UNCHANGED <<nextId, resp, remote, sync, gone>>

\* the client takes the handler's answer
ReplyTaken ==
    /\ inflight.pc = "replied"
    /\ inflight' = IdleReq
    /\ UNCHANGED <<mails, nextId, resp, remote, sync, gone>>

\* deliveries, a client that deletes permanently, and the two-step handler
NextRace ==
    \/ \E m \in Messages, rcpt \in {BobAddr, AliceAddr} :
          SmtpReceive(m, rcpt) /\ UNCHANGED <<gone, inflight>>
    \/ \E u \in Users, id \in Ids :
          PermanentDelete(u, id, TRUE) /\ UNCHANGED <<gone, inflight>>
    \/ Receive /\ UNCHANGED <<gone, inflight>>
    \/ \E op \in RaceOps, u \in Users, ids \in SUBSET Ids : CheckStep(op, u, ids)
    \/ UpdateStep
    \/ ReplyTaken

SpecRace == Init /\ [][NextRace]_vars

\* C27: a mutation that reports success has changed an existing row: the
\* update step of a single-message mutation answers 200 only if the row
\* still exists, and a bulk action counts only rows that still exist, also
\* when a permanent delete was served between the check and the update.
C27_SuccessMeansRow ==
    [][(inflight.pc = "checked" /\ inflight'.pc = "replied" /\ inflight'.status = 200)
       => /\ \A id \in inflight.ok : rowsById(id) # {}
          /\ inflight.op = "bulk"
                => inflight'.count = Cardinality({r \in mails : r.id \in inflight.ok})]_vars

\* --------------------------------------------------- the query routes
RECURSIVE ingestAll(_, _, _, _)
\* the Ingest Writer applied to the fetched messages in order, ids from id on
ingestAll(rows, id, msgs, owner) ==
    IF msgs = <<>> THEN rows
    ELSE LET new == insertIfAbsent(rows, id, Head(msgs), "INBOX", owner)
         IN  ingestAll(new, IF new = rows THEN id ELSE id + 1, Tail(msgs), owner)

\* the index in Mailboxes of an address (0: no such mailbox)
boxOf(addr) ==
    IF \E b \in DOMAIN Mailboxes : Mailboxes[b] = addr
    THEN CHOOSE b \in DOMAIN Mailboxes : Mailboxes[b] = addr
    ELSE 0

\* an answer that carries rows
Rows(op, rows) == [Reply(op, 200, NoCount) EXCEPT !.mail = rows]

\* GET /mail/inbox: await fetchImapEmails(userEmail, 'password') - a sync of
\* the user's mailbox whose failure is logged and ignored - then the listing
ListInbox(user, imapOk) ==
    LET b == boxOf(userEmailOf(user))
        unseen == IF imapOk /\ b # 0 THEN UnseenOf(remote, b, 1) ELSE <<>>
        msgs == [i \in DOMAIN unseen |-> remote[unseen[i]].msg]
    IN
    /\ resp = NoResp
    /\ nextId + Len(unseen) <= MaxId + 1
    /\ mails' = ingestAll(mails, nextId, msgs, userEmailOf(user))
    /\ nextId' = nextId + Cardinality(mails') - Cardinality(mails)
    /\ remote' = IF imapOk /\ b # 0 THEN markSeen(remote, b) ELSE remote
    /\ resp' = Rows("inbox", listInbox(user)')
    /\ UNCHANGED sync

\* the other query routes: one SELECT and the answer
Query(op, result) ==
    /\ resp = NoResp
    /\ resp' = Rows(op, result)
    /\ UNCHANGED <<mails, nextId, remote, sync>>

\* GET /mail/:id
GetRoute(user, id) ==
    /\ resp = NoResp
    /\ resp' = IF GetMail(user, id) = 200 THEN Rows("get", rowsById(id))
               ELSE Reply("get", GetMail(user, id), NoCount)
    /\ UNCHANGED <<mails, nextId, remote, sync>>

QueryOps == {"inbox", "sent", "spam", "trash", "important", "counts", "search", "get"}

\* mail arriving (remote mailbox, SMTP), the mutations of a row's folder
\* and flags, and the query routes
NextQuery ==
    \/ \E b \in DOMAIN Mailboxes, m \in Messages :
          Deliver(b, m) /\ UNCHANGED <<gone, inflight>>
    \/ \E m \in Messages, rcpt \in {BobAddr, AliceAddr} :
          SmtpReceive(m, rcpt) /\ UNCHANGED <<gone, inflight>>
    \/ \E u \in Users, id \in Ids : Star(u, id, TRUE, TRUE) /\ UNCHANGED <<gone, inflight>>
    \/ \E u \in Users, id \in Ids, to \in Folders :
          Move(u, id, to, TRUE) /\ UNCHANGED <<gone, inflight>>
    \/ \E u \in Users, ok \in BOOLEAN : ListInbox(u, ok) /\ UNCHANGED <<gone, inflight>>
    \/ \E u \in Users : Query("sent", listSent(u)) /\ UNCHANGED <<gone, inflight>>
    \/ \E u \in Users : Query("spam", listSpam(u)) /\ UNCHANGED <<gone, inflight>>
    \/ \E u \in Users : Query("trash", listTrash(u)) /\ UNCHANGED <<gone, inflight>>
    \/ \E u \in Users : Query("important", listImportant(u)) /\ UNCHANGED <<gone, inflight>>
    \/ \E u \in Users : Query("counts", {counts(u)}) /\ UNCHANGED <<gone, inflight>>
    \/ \E u \in Users : Query("search", search(u)) /\ UNCHANGED <<gone, inflight>>
    \/ \E u \in Users, id \in Ids : GetRoute(u, id) /\ UNCHANGED <<gone, inflight>>
    \/ Receive /\ UNCHANGED <<gone, inflight>>

SpecQuery == Init /\ [][NextQuery]_vars

\* C28: the query routes (the inbox, sent, spam, trash and important
\* listings, the counts, the search and the single get) are read-only: a
\* step of one of them changes no stored row and no remote mailbox state.
C28_QueriesReadOnly ==
    [][(resp.op = "none" /\ resp'.op \in QueryOps)
       => (mails' = mails /\ nextId' = nextId /\ remote' = remote)]_vars

\* C29: every IMAP session syncMailbox opens is closed by the time
\* syncMailbox returns, on the success path and on every failure path.
C29_SessionClosed ==
    \A t \in Ticks : sync[t].pc = "returned" => sync[t].conn # "open"

\* C30: for every identity, given with or without '@', the rows the search
\* may return (before the text match) are the rows the identity can access:
\* those the access check allows, which are those the folder listings show.
C30_SearchSameMailbox ==
    \A u \in Users :
        /\ search(u) = {r \in mails : allowed(r, u)}
        /\ search(u) = listInbox(u) \cup listSent(u) \cup listSpam(u) \cup listTrash(u)

====
